---- MODULE Spec2Model ----
(***************************************************************************)
(* A model of src/code/ec2train.py: main() builds three data loaders and a *)
(* ResNet50 with a frozen backbone and a fresh classifier head, runs       *)
(* train(), then test(), then saves the model's state_dict.                *)
(*                                                                         *)
(* Numbers.  Python floats are modelled by exact non-negative rationals    *)
(* <<numerator, denominator>> in lowest terms; rounding is not modelled.   *)
(* Losses are finite and non-negative (nn.CrossEntropyLoss).               *)
(*                                                                         *)
(* Errors.  Every call into a collaborator (the data loader's iterator,    *)
(* the model's forward pass, the criterion, the Report logger, torch.save, *)
(* the look-up of the global names `device` and `Report`, which the file   *)
(* never binds) either returns or raises; a raised error is caught nowhere *)
(* in the file, so it ends the run.                                        *)
(***************************************************************************)
EXTENDS Integers, Sequences, FiniteSets, Bags, TLC

VARIABLES
    pc,               \* where main() stands
    err,              \* the error that ended the run, "" while none
    saved,            \* number of torch.save calls made
    done_steps,       \* the steps of main() completed so far, in order
    args,             \* parsed command line: epochs, batch_size
    folders,          \* images under data/test and data/valid
    loaders,          \* train_loader, test_loader, validation_loader
    training,         \* model.training (train() / eval() mode)
    params,           \* value (version) of every model parameter
    requires_grad,    \* param.requires_grad
    grad,             \* whether param.grad holds a gradient
    buffers,          \* version of the BatchNorm running statistics
    optimizer,        \* Adam: the parameters it is bound to, steps taken
    criterion,        \* the values the loss takes on this data
    epoch, phase, pos,
    running_loss, running_corrects,
    epoch_loss, epoch_acc,
    best_loss, loss_counter,
    seen,             \* the batches the current pass has consumed (a bag)
    valid_hist,       \* the validation epoch losses computed so far
    total_loss, total_acc

vars == <<pc, err, saved, done_steps, args, folders, loaders, training, params,
          requires_grad, grad, buffers, optimizer, criterion, epoch, phase, pos,
          running_loss, running_corrects, epoch_loss, epoch_acc, best_loss,
          loss_counter, seen, valid_hist, total_loss, total_acc>>

inputs == <<args, folders, criterion>>
modelv == <<training, params, requires_grad, grad, buffers, optimizer>>
accv == <<running_loss, running_corrects, seen>>
bestv == <<best_loss, loss_counter, valid_hist>>
epochv == <<epoch_loss, epoch_acc>>
testv == <<total_loss, total_acc>>

(***************************************************************************)
(* Bounds of the model.                                                    *)
(***************************************************************************)
MaxEpochs == 2
MaxBatches == 3
BatchSizeChoices == {4, 8}

(***************************************************************************)
(* Rational arithmetic standing for float arithmetic.                      *)
(***************************************************************************)
RECURSIVE GCD(_, _)
GCD(a, b) == IF b = 0 THEN a ELSE GCD(b, a % b)

Rat(n, d) == LET g == GCD(n, d) IN <<n \div g, d \div g>>
RatAdd(a, b) == Rat(a[1] * b[2] + b[1] * a[2], a[2] * b[2])
RatMulInt(a, k) == Rat(a[1] * k, a[2])
RatDivInt(a, k) == Rat(a[1], a[2] * k)
Lt(a, b) == a[1] * b[2] < b[1] * a[2]

Zero == <<0, 1>>
Unset == <<0, 0>>

Sentinel == 1000000

\* The values criterion(outputs, labels).item() takes, by data set.
LossRanges ==
    { {<<1, 10>>, <<1, 5>>, <<3, 10>>},
      {<<1, 1>>, <<3, 1>>},
      {<<1, 1>>, <<250000, 1>>} }

(***************************************************************************)
(* Data loaders: torch.utils.data.DataLoader over an ImageFolder, with     *)
(* drop_last left False, so the last batch may be short.                   *)
(***************************************************************************)
SampleCounts(bs) ==
    {(n - 1) * bs + l : n \in 1..MaxBatches, l \in {bs \div 2, bs}}

DataLoader(n_samples, batch_size) ==
    [n_samples |-> n_samples, batch_size |-> batch_size]

len(loader) ==
    (loader.n_samples + loader.batch_size - 1) \div loader.batch_size

SizeAt(loader, i) ==
    IF i < len(loader) - 1
    THEN loader.batch_size
    ELSE loader.n_samples - (len(loader) - 1) * loader.batch_size

NoLoaders ==
    [train |-> DataLoader(0, 1), test |-> DataLoader(0, 1),
     valid |-> DataLoader(0, 1)]

\* The train loader reads test_data_path.
create_data_loaders(data, batch_size) ==
    [train |-> DataLoader(data.test, batch_size),
     test  |-> DataLoader(data.test, batch_size),
     valid |-> DataLoader(data.valid, batch_size)]

image_dataset(p) == IF p = "train" THEN loaders.train ELSE loaders.valid

(***************************************************************************)
(* The model's parameters and the optimizer.                               *)
(***************************************************************************)
BackboneParams == {"conv1.weight", "layer4.weight"}
HeadParams == {"fc.0", "fc.2", "fc.4"}
ParamNames == BackboneParams \cup HeadParams

net_unfrozen == [p \in ParamNames |-> TRUE]
\* requires_grad of the model net() returns: every parameter of the pretrained
\* network is frozen, then fc is replaced by fresh (trainable) layers.
net == [p \in ParamNames |-> p \in HeadParams]

\* model.fc.parameters(): the parameters of the head's Linear layers.
fc_parameters == HeadParams

\* optim.Adam(model.fc.parameters(), lr)
Adam(ps) == [params |-> ps, steps |-> 0]

zero_grad(g, opt) == [p \in ParamNames |-> IF p \in opt.params THEN FALSE ELSE g[p]]
backward(g, rg) == [p \in ParamNames |-> g[p] \/ rg[p]]
step(ps, g, opt) ==
    [p \in ParamNames |-> IF p \in opt.params /\ g[p] THEN ps[p] + 1 ELSE ps[p]]

\* A forward pass in training mode updates the BatchNorm running statistics.
Forward(mode, bufs) == IF mode THEN bufs + 1 ELSE bufs

(***************************************************************************)
(* The decisions of train().                                               *)
(***************************************************************************)
Learns_always(p) == TRUE
Learns(p) == p = "train"

TracksBest_always(p) == TRUE
TracksBest(p) == p = "valid"

EpochLoss_per_sample(running, loader) == RatDivInt(running, loader.n_samples)
EpochLoss(running, loader) == RatDivInt(running, len(loader))

EpochAcc(corrects, loader) == Rat(corrects, len(loader))

Improved_flipped(e_loss, b_loss) == Lt(b_loss, e_loss)
Improved_or_tie(e_loss, b_loss) == ~Lt(b_loss, e_loss)
Improved(e_loss, b_loss) == Lt(e_loss, b_loss)

BestAfter_last(e_loss, b_loss) == e_loss
BestAfter(e_loss, b_loss) == IF Improved(e_loss, b_loss) THEN e_loss ELSE b_loss

CounterAfter(e_loss, b_loss, c) == IF Improved(e_loss, b_loss) THEN c ELSE c + 1

BreakAfter_stalled_only(e, c) == c = 1
BreakAfter(e, c) == c = 1 \/ e = 0

(***************************************************************************)
(* The decisions of test().                                                *)
(***************************************************************************)
TotalLoss(running, loader) == RatDivInt(running, len(loader))

TotalAcc_per_sample(corrects, loader) == Rat(corrects, loader.n_samples)
TotalAcc(corrects, loader) == Rat(corrects, len(loader))

(***************************************************************************)
(* Control.                                                                *)
(***************************************************************************)
\* The locals of train() and test() once the call has returned or unwound.
LocalsGone ==
    /\ epoch' = 0 /\ phase' = "train" /\ pos' = 0
    /\ running_loss' = Zero /\ running_corrects' = 0 /\ seen' = EmptyBag
    /\ epoch_loss' = Unset /\ epoch_acc' = Unset
    /\ best_loss' = Unset /\ loss_counter' = 0 /\ valid_hist' = <<>>
    /\ total_loss' = Unset /\ total_acc' = Unset

Raise_salvage(e) ==
    /\ pc' = "aborted" /\ err' = e /\ saved' = saved + 1
    /\ LocalsGone /\ UNCHANGED done_steps
\* An error nothing catches: the run ends where it stands.
Raise(e) ==
    /\ pc' = "aborted" /\ err' = e /\ saved' = saved
    /\ LocalsGone /\ UNCHANGED done_steps

Continue(p) == pc' = p /\ UNCHANGED <<err, saved>>

Init ==
    /\ pc = "main" /\ err = "" /\ saved = 0 /\ done_steps = <<>>
    /\ args \in [epochs : 0..MaxEpochs, batch_size : BatchSizeChoices]
    /\ folders \in [test : SampleCounts(args.batch_size),
                    valid : SampleCounts(args.batch_size)]
    /\ criterion \in LossRanges
    /\ loaders = NoLoaders
    /\ training = TRUE
    /\ params = [p \in ParamNames |-> 0]
    /\ requires_grad = [p \in ParamNames |-> TRUE]
    /\ grad = [p \in ParamNames |-> FALSE]
    /\ buffers = 0
    /\ optimizer = Adam({})
    /\ epoch = 0 /\ phase = "train" /\ pos = 0
    /\ running_loss = Zero /\ running_corrects = 0 /\ seen = EmptyBag
    /\ epoch_loss = Unset /\ epoch_acc = Unset
    /\ best_loss = Unset /\ loss_counter = 0 /\ valid_hist = <<>>
    /\ total_loss = Unset /\ total_acc = Unset

\* main(): create_data_loaders, net(), the criterion and the optimizer.
main_build ==
    /\ pc = "main"
    /\ \/ /\ Raise("create_data_loaders")
          /\ UNCHANGED <<loaders, modelv>>
       \/ /\ loaders' = create_data_loaders(folders, args.batch_size)
          /\ requires_grad' = net
          /\ optimizer' = Adam(fc_parameters)
          /\ done_steps' = Append(done_steps, "build")
          /\ Continue("train")
          /\ UNCHANGED <<training, params, grad, buffers, epoch, phase,
                         pos, accv, epochv, bestv, testv>>
    /\ UNCHANGED inputs

\* The call of train(): its initialisation and the entry of the epoch loop.
train_init ==
    /\ pc = "train"
    /\ \/ Raise("NameError")
       \/ IF args.epochs = 0
          THEN /\ LocalsGone
               /\ done_steps' = Append(done_steps, "train")
               /\ Continue("test")
          ELSE /\ best_loss' = <<Sentinel, 1>>
               /\ loss_counter' = 0
               /\ epoch' = 0
               /\ phase' = "train"
               /\ Continue("phase")
               /\ UNCHANGED <<done_steps, pos, accv, epochv, valid_hist, testv>>
    /\ UNCHANGED <<inputs, loaders, modelv>>

\* The head of the phase loop: the mode and the running accumulators.
\* epoch_loss and epoch_acc are dead here (written again before any read).
train_phase_start ==
    /\ pc = "phase"
    /\ training' = (phase = "train")
    /\ running_loss' = Zero
    /\ running_corrects' = 0
    /\ seen' = EmptyBag
    /\ pos' = 0
    /\ epoch_loss' = Unset /\ epoch_acc' = Unset
    /\ Continue("batch")
    /\ UNCHANGED <<done_steps, inputs, loaders, params, requires_grad, grad,
                   buffers, optimizer, epoch, phase, bestv, testv>>

\* One iteration of the batch loop of train().
train_batch ==
    /\ pc = "batch"
    /\ pos < len(image_dataset(phase))
    /\ \/ /\ Raise("feeder")
          /\ UNCHANGED modelv
       \/ /\ Raise("forward_or_criterion")
          /\ buffers' = Forward(training, buffers)
          /\ UNCHANGED <<training, params, requires_grad, grad, optimizer>>
       \/ /\ Learns(phase)
          /\ Raise("log.record")
          /\ buffers' = Forward(training, buffers)
          /\ grad' = backward(zero_grad(grad, optimizer), requires_grad)
          /\ UNCHANGED <<training, params, requires_grad, optimizer>>
       \/ \E loss \in criterion, all_correct \in BOOLEAN :
            LET size == SizeAt(image_dataset(phase), pos)
                correct == IF all_correct THEN size ELSE 0
                g == backward(zero_grad(grad, optimizer), requires_grad)
            IN  /\ buffers' = Forward(training, buffers)
                /\ IF Learns(phase)
                   THEN /\ grad' = g
                        /\ params' = step(params, g, optimizer)
                        /\ optimizer' = [optimizer EXCEPT !.steps = @ + 1]
                   ELSE UNCHANGED <<grad, params, optimizer>>
                /\ running_loss' = RatAdd(running_loss, RatMulInt(loss, size))
                /\ running_corrects' = running_corrects + correct
                /\ seen' = seen (+) SetToBag({[loss |-> loss, size |-> size,
                                               correct |-> correct]})
                /\ pos' = pos + 1
                /\ Continue("batch")
                /\ UNCHANGED <<done_steps, training, requires_grad, epoch, phase,
                               epochv, bestv, testv>>
    /\ UNCHANGED <<inputs, loaders>>

\* After the batch loop: the epoch metrics and the best-loss tracker.
train_phase_end ==
    /\ pc = "batch"
    /\ pos = len(image_dataset(phase))
    /\ LET e_loss == EpochLoss(running_loss, image_dataset(phase))
       IN  /\ epoch_loss' = e_loss
           /\ epoch_acc' = EpochAcc(running_corrects, image_dataset(phase))
           /\ IF TracksBest(phase)
              THEN /\ best_loss' = BestAfter(e_loss, best_loss)
                   /\ loss_counter' = CounterAfter(e_loss, best_loss, loss_counter)
                   /\ valid_hist' = Append(valid_hist, e_loss)
                   /\ pos' = 0
                   /\ phase' = phase
                   /\ Continue("valid_log")
              ELSE /\ phase' = "valid"
                   /\ Continue(IF phase = "train" THEN "phase" ELSE "epoch_end")
                   /\ UNCHANGED <<bestv, pos>>
    /\ UNCHANGED <<done_steps, inputs, loaders, modelv, epoch, accv, testv>>

\* One iteration of the second pass over the feeder, under torch.no_grad().
train_log_batch ==
    /\ pc = "valid_log"
    /\ pos < len(image_dataset(phase))
    /\ \/ Raise("feeder_or_forward")
       \/ /\ pos' = pos + 1
          /\ Continue("valid_log")
          /\ UNCHANGED <<done_steps, epoch, phase, accv, epochv, bestv, testv>>
    /\ buffers' = Forward(training, buffers)
    /\ UNCHANGED <<inputs, loaders, training, params, requires_grad, grad, optimizer>>

\* The second pass is exhausted: on to the next phase or to the end of the epoch.
train_log_done ==
    /\ pc = "valid_log"
    /\ pos = len(image_dataset(phase))
    /\ phase' = "valid"
    /\ Continue(IF phase = "train" THEN "phase" ELSE "epoch_end")
    /\ UNCHANGED <<done_steps, inputs, loaders, modelv, epoch, pos, accv, epochv,
                   bestv, testv>>

\* The two breaks, the next epoch, and the return of train().
train_epoch_end ==
    /\ pc = "epoch_end"
    /\ IF BreakAfter(epoch, loss_counter) \/ epoch + 1 >= args.epochs
       THEN /\ LocalsGone
            /\ done_steps' = Append(done_steps, "train")
            /\ Continue("test")
       ELSE /\ epoch' = epoch + 1
            /\ phase' = "train"
            /\ Continue("phase")
            /\ UNCHANGED <<done_steps, pos, accv, epochv, bestv, testv>>
    /\ UNCHANGED <<inputs, loaders, modelv>>

\* The call of test(): evaluation mode and its accumulators.
test_start ==
    /\ pc = "test"
    /\ training' = FALSE
    /\ running_loss' = Zero
    /\ running_corrects' = 0
    /\ seen' = EmptyBag
    /\ pos' = 0
    /\ Continue("test_batch")
    /\ UNCHANGED <<done_steps, inputs, loaders, params, requires_grad, grad,
                   buffers, optimizer, epoch, phase, epochv, bestv, testv>>

\* One iteration of the batch loop of test().
test_batch ==
    /\ pc = "test_batch"
    /\ pos < len(loaders.test)
    /\ \/ Raise("feeder")
       \/ Raise("forward_or_criterion")
       \/ \E loss \in criterion, all_correct \in BOOLEAN :
            LET size == SizeAt(loaders.test, pos)
                correct == IF all_correct THEN size ELSE 0
            IN  /\ running_loss' = RatAdd(running_loss, RatMulInt(loss, size))
                /\ running_corrects' = running_corrects + correct
                /\ seen' = seen (+) SetToBag({[loss |-> loss, size |-> size,
                                               correct |-> correct]})
                /\ pos' = pos + 1
                /\ Continue("test_batch")
                /\ UNCHANGED <<done_steps, epoch, phase, epochv, bestv, testv>>
    /\ buffers' = Forward(training, buffers)
    /\ UNCHANGED <<inputs, loaders, training, params, requires_grad, grad, optimizer>>

\* After the batch loop of test(): the two reported totals.
test_end ==
    /\ pc = "test_batch"
    /\ pos = len(loaders.test)
    /\ total_loss' = TotalLoss(running_loss, loaders.test)
    /\ total_acc' = TotalAcc(running_corrects, loaders.test)
    /\ done_steps' = Append(done_steps, "test")
    /\ Continue("save")
    /\ UNCHANGED <<inputs, loaders, modelv, epoch, phase, pos, accv, epochv, bestv>>

\* torch.save(model.state_dict(), args.output_dir)
main_save ==
    /\ pc = "save"
    /\ \/ Raise("torch.save")
       \/ /\ saved' = saved + 1
          /\ pc' = "done"
          /\ err' = err
          /\ done_steps' = Append(done_steps, "save")
          /\ LocalsGone
    /\ UNCHANGED <<inputs, loaders, modelv>>

Next ==
    \/ main_build
    \/ train_init
    \/ train_phase_start
    \/ train_batch
    \/ train_phase_end
    \/ train_log_batch
    \/ train_log_done
    \/ train_epoch_end
    \/ test_start
    \/ test_batch
    \/ test_end
    \/ main_save

Spec == Init /\ [][Next]_vars

(***************************************************************************)
(* Vocabulary of the properties.                                           *)
(***************************************************************************)
InTrain == pc \in {"phase", "batch", "valid_log", "epoch_end"}

\* The validation phase of the current epoch has computed its metrics.
AfterValid == pc \in {"valid_log", "epoch_end"} /\ phase = "valid"

\* The step that leaves the batch loop of a validation phase.
ValidPhaseEnds == pc = "batch" /\ phase = "valid" /\ pc' = "valid_log"

SentinelLoss == <<Sentinel, 1>>

RECURSIVE SumLoss(_)
SumLoss(B) ==
    IF DOMAIN B = {} THEN Zero
    ELSE LET b == CHOOSE x \in DOMAIN B : TRUE
         IN  RatAdd(RatMulInt(b.loss, b.size * B[b]),
                    SumLoss([x \in DOMAIN B \ {b} |-> B[x]]))

RECURSIVE SumCorrect(_)
SumCorrect(B) ==
    IF DOMAIN B = {} THEN 0
    ELSE LET b == CHOOSE x \in DOMAIN B : TRUE
         IN  b.correct * B[b] + SumCorrect([x \in DOMAIN B \ {b} |-> B[x]])

RECURSIVE MinLoss(_, _)
MinLoss(m, h) ==
    IF h = <<>> THEN m
    ELSE MinLoss(IF Lt(Head(h), m) THEN Head(h) ELSE m, Tail(h))

Losses(B) == {b.loss : b \in DOMAIN B}
Sizes(B) == {b.size : b \in DOMAIN B}
AllCorrect(B) == \A b \in DOMAIN B : b.correct = b.size

IsPrefix(s, t) == Len(s) <= Len(t) /\ \A i \in 1..Len(s) : s[i] = t[i]
MainOrder == <<"build", "train", "test", "save">>

(***************************************************************************)
(* C1. For every max_epochs >= 1 the epoch loop of train() runs at most 2  *)
(* epochs, and the end of epoch 0 (after its validation phase and the      *)
(* logging pass) always leaves the loop.                                   *)
(***************************************************************************)
C1_EpochLoopBound ==
    [][ /\ (InTrain' => epoch' + 1 <= 2)
        /\ ((pc = "epoch_end" /\ epoch = 0) => ~InTrain') ]_vars

\* Epoch 0 improved on the sentinel, the budget allows another epoch, and the
\* loop stands at its end-of-epoch tests.
C1_Witness ==
    /\ pc = "epoch_end" /\ epoch = 0 /\ loss_counter = 0
    /\ args.epochs = MaxEpochs /\ MaxEpochs >= 2

(***************************************************************************)
(* C2. When the validation epoch loss of epoch 0 is below the sentinel     *)
(* 1e6, best_loss is exactly that loss and the stall counter is still 0;   *)
(* and whatever the loss and max_epochs, train() never starts epoch 1.     *)
(***************************************************************************)
C2_EpochZero ==
    /\ (AfterValid /\ epoch = 0 /\ Lt(epoch_loss, SentinelLoss))
          => (best_loss = epoch_loss /\ loss_counter = 0)
    /\ (InTrain => epoch = 0)

C2_Witness ==
    /\ AfterValid /\ pc = "epoch_end" /\ epoch = 0
    /\ Lt(epoch_loss, SentinelLoss) /\ best_loss = epoch_loss
    /\ args.epochs >= 2

(***************************************************************************)
(* C3. Inside train() the stall counter grows by one exactly in the step   *)
(* that ends a validation phase whose epoch loss is not strictly below     *)
(* best_loss (a tie stalls); when the loss is strictly below, best_loss    *)
(* becomes that loss and the counter keeps its value; no step of a         *)
(* training phase changes the counter and no step lowers it.               *)
(***************************************************************************)
C3_StallCounter ==
    [][ (InTrain /\ InTrain') =>
          /\ (loss_counter' = loss_counter + 1)
                <=> (ValidPhaseEnds /\ ~Lt(epoch_loss', best_loss))
          /\ (ValidPhaseEnds /\ Lt(epoch_loss', best_loss))
                => (best_loss' = epoch_loss' /\ loss_counter' = loss_counter)
          /\ (phase = "train" => loss_counter' = loss_counter)
          /\ loss_counter' >= loss_counter ]_vars

\* A tie with the sentinel has been counted as a stall.
C3_Witness ==
    /\ AfterValid /\ epoch_loss = SentinelLoss
    /\ best_loss = SentinelLoss /\ loss_counter = 1

(***************************************************************************)
(* C4. Inside train() the stall counter never decreases and grows by at    *)
(* most 1 per epoch: a step changes it by 0 or 1, only the step ending a   *)
(* validation phase changes it, and that step is taken once per epoch.     *)
(***************************************************************************)
C4_CounterMonotone ==
    [][ (InTrain /\ InTrain') =>
          /\ loss_counter' \in {loss_counter, loss_counter + 1}
          /\ (loss_counter' # loss_counter => ValidPhaseEnds)
          /\ (ValidPhaseEnds => (Len(valid_hist') = epoch + 1 /\ epoch' = epoch)) ]_vars

\* The one validation phase of an epoch stalled on a loss above the sentinel.
C4_Witness ==
    /\ pc = "epoch_end" /\ loss_counter = 1 /\ Len(valid_hist) = epoch + 1
    /\ Lt(SentinelLoss, epoch_loss)

(***************************************************************************)
(* C5. In every (epoch, phase) of train() the accumulators start at zero   *)
(* and hold the sums over the batches consumed so far of loss x size and   *)
(* of the correct counts; epoch_loss and epoch_acc are those sums divided  *)
(* by the number of batches of the phase.  Two training batches of size 4  *)
(* with losses 1.0 and 3.0 give running_loss 16.0 and epoch_loss 8.0.      *)
(***************************************************************************)
C5_EpochMetrics ==
    InTrain =>
      /\ pc = "batch" =>
            /\ BagCardinality(seen) = pos
            /\ running_loss = SumLoss(seen)
            /\ running_corrects = SumCorrect(seen)
            /\ (pos = 0 => (running_loss = Zero /\ running_corrects = 0))
      /\ epoch_loss # Unset =>
            /\ BagCardinality(seen) = len(image_dataset(IF pc = "phase" THEN "train" ELSE phase))
            /\ RatMulInt(epoch_loss, BagCardinality(seen)) = SumLoss(seen)
            /\ RatMulInt(epoch_acc, BagCardinality(seen)) = <<SumCorrect(seen), 1>>
      /\ (BagCardinality(seen) = 2 /\ Sizes(seen) = {4}
            /\ Losses(seen) = {<<1, 1>>, <<3, 1>>}) =>
            /\ running_loss = <<16, 1>>
            /\ (epoch_loss # Unset => epoch_loss = <<8, 1>>)

\* The training phase of the example has ended.
C5_Witness ==
    /\ pc = "phase" /\ phase = "valid"
    /\ BagCardinality(seen) = 2 /\ Sizes(seen) = {4}
    /\ Losses(seen) = {<<1, 1>>, <<3, 1>>}
    /\ running_loss = <<16, 1>> /\ epoch_loss = <<8, 1>>

(***************************************************************************)
(* C6 as stated. test() reports total_loss = sum of (loss x size) over the *)
(* number of batches, and total_acc = 1.0 when every prediction is         *)
(* correct; 3 batches of 8 with losses 0.1, 0.2, 0.3, all correct, give    *)
(* total_loss = 1.6 and total_acc = 1.0.                                   *)
(***************************************************************************)
C6_AsStated ==
    pc = "save" =>
      /\ RatMulInt(total_loss, BagCardinality(seen)) = SumLoss(seen)
      /\ (AllCorrect(seen) => total_acc = <<1, 1>>)
      /\ (BagCardinality(seen) = 3 /\ Sizes(seen) = {8} /\ AllCorrect(seen)
            /\ Losses(seen) = {<<1, 10>>, <<1, 5>>, <<3, 10>>}) =>
            (total_loss = <<8, 5>> /\ total_acc = <<1, 1>>)

(***************************************************************************)
(* C6 amended. test() reports total_loss = sum of (loss x size) over the   *)
(* number of batches and total_acc = number of correct predictions over    *)
(* the number of batches; 3 batches of 8 with losses 0.1, 0.2, 0.3, all    *)
(* correct, give total_loss = 1.6 and total_acc = 24/3 = 8.0.              *)
(***************************************************************************)
C6_TestTotals ==
    pc = "save" =>
      /\ BagCardinality(seen) = len(loaders.test)
      /\ RatMulInt(total_loss, BagCardinality(seen)) = SumLoss(seen)
      /\ RatMulInt(total_acc, BagCardinality(seen)) = <<SumCorrect(seen), 1>>
      /\ (BagCardinality(seen) = 3 /\ Sizes(seen) = {8} /\ AllCorrect(seen)
            /\ Losses(seen) = {<<1, 10>>, <<1, 5>>, <<3, 10>>}) =>
            (total_loss = <<8, 5>> /\ total_acc = <<8, 1>>)

C6_Witness ==
    /\ pc = "save"
    /\ BagCardinality(seen) = 3 /\ Sizes(seen) = {8} /\ AllCorrect(seen)
    /\ Losses(seen) = {<<1, 10>>, <<1, 5>>, <<3, 10>>}
    /\ total_loss = <<8, 5>> /\ total_acc = <<8, 1>>

(***************************************************************************)
(* C7. With the model of net() and the optimizer of main(), every backbone *)
(* parameter is frozen, is outside the optimizer, never receives a         *)
(* gradient and keeps its pretrained value through any number of training  *)
(* steps: optimizer steps change head parameters only.                     *)
(***************************************************************************)
C7_BackboneFrozen ==
    /\ \A p \in BackboneParams : params[p] = 0
    /\ done_steps # <<>> =>
          /\ optimizer.params = HeadParams
          /\ \A p \in BackboneParams : ~requires_grad[p] /\ ~grad[p]

\* Two optimizer steps have updated the head.
C7_Witness ==
    /\ optimizer.steps = 2
    /\ \A p \in HeadParams : params[p] = 2 /\ grad[p]
    /\ \A p \in BackboneParams : params[p] = 0

(***************************************************************************)
(* C8. Parameters, gradients and optimizer state change only in a batch of *)
(* a training phase: the validation phase, the logging pass over the       *)
(* validation feeder and test() leave them as they were.                   *)
(***************************************************************************)
C8_OnlyTrainingLearns ==
    [][ (pc # "main" /\ (params' # params \/ grad' # grad \/ optimizer' # optimizer))
          => (pc = "batch" /\ phase = "train") ]_vars

\* test() has run over a model that three training batches updated.
C8_Witness ==
    /\ pc = "save" /\ optimizer.steps = 3
    /\ \A p \in HeadParams : params[p] = 3

(***************************************************************************)
(* C9. main() completes its steps in the order build, train, test, save;   *)
(* the model is saved at most once and only when train() and test() have   *)
(* both returned; a run that an error ended has saved nothing and takes no *)
(* further step.                                                           *)
(***************************************************************************)
C9_MainOrder ==
    /\ IsPrefix(done_steps, MainOrder)
    /\ saved <= 1
    /\ (saved = 1 <=> done_steps = MainOrder)
    /\ (pc = "done" <=> saved = 1)
    /\ (pc = "aborted" => (saved = 0 /\ err # "" /\ ~ENABLED Next))
    /\ (pc # "aborted" => err = "")

\* An error in test(), after a training run that updated the head.
C9_Witness ==
    /\ pc = "aborted" /\ err = "forward_or_criterion"
    /\ done_steps = <<"build", "train">>
    /\ optimizer.steps > 0 /\ saved = 0

(***************************************************************************)
(* C10. Inside train() best_loss starts at the sentinel 1e6, changes only  *)
(* in the step that ends a validation phase, only downwards, and always    *)
(* equals the least of 1e6 and the validation epoch losses computed so     *)
(* far.                                                                    *)
(***************************************************************************)
C10_BestLoss ==
    /\ [](InTrain => best_loss = MinLoss(SentinelLoss, valid_hist))
    /\ [][ /\ (pc = "train" /\ InTrain') => best_loss' = SentinelLoss
           /\ (InTrain /\ InTrain' /\ best_loss' # best_loss)
                 => (ValidPhaseEnds /\ Lt(best_loss', best_loss)
                     /\ best_loss' = epoch_loss') ]_vars

\* A validation loss below the sentinel has become the best loss.
C10_Witness ==
    /\ pc = "epoch_end" /\ Len(valid_hist) = 1
    /\ best_loss = valid_hist[1] /\ Lt(best_loss, SentinelLoss)
====
